---- MODULE Spec2Model ----
(***************************************************************************)
(* A model of tools/video-analyzer.py: the VideoAnalyzer pipeline          *)
(* (analyze_video) and the text pass it runs on a transcript.  Python      *)
(* strings are TLA+ strings; lists are sequences; dicts are records.       *)
(***************************************************************************)
EXTENDS Integers, Sequences, FiniteSets, TLC

VARIABLES pc, url, video_id, metadata, temp_dir, audio_file, transcript,
          concepts, components, spec, summary, result, calls

vars == <<pc, url, video_id, metadata, temp_dir, audio_file, transcript,
          concepts, components, spec, summary, result, calls>>

(***************************************************************************)
(* Python values                                                           *)
(***************************************************************************)
\* Python's None (and a local that is not bound yet).
NoneValue == [none |-> TRUE]

\* A str held in a variable that may also hold None (Optional[str]).
Str(s) == [str |-> s]

\* dict.get(key, default)
Get(d, k, default) == IF k \in DOMAIN d THEN d[k] ELSE default

Min(a, b) == IF a <= b THEN a ELSE b

\* list[:n]
Take(list, n) == SubSeq(list, 1, Min(n, Len(list)))

Range(f) == {f[i] : i \in DOMAIN f}

SetMin(S) == CHOOSE m \in S : \A n \in S : m <= n

(***************************************************************************)
(* str operations                                                          *)
(***************************************************************************)
\* s[i-1:i] in Python's counting: the character at i, "" past either end
Char(s, i) == IF i >= 1 /\ i <= Len(s) THEN SubSeq(s, i, i) ELSE ""

\* s[i:].startswith(p), i counted from 1
StartsWithAt(s, i, p) ==
    /\ i >= 1
    /\ i + Len(p) - 1 <= Len(s)
    /\ SubSeq(s, i, i + Len(p) - 1) = p

\* p in s
Contains(s, p) ==
    LET n == Len(p)
    IN  \E i \in 1..(Len(s) - n + 1) : SubSeq(s, i, i + n - 1) = p

\* any(word in s for word in words)
ContainsAny(s, words) == \E j \in DOMAIN words : Contains(s, words[j])

UpperChars == <<"A","B","C","D","E","F","G","H","I","J","K","L","M",
                "N","O","P","Q","R","S","T","U","V","W","X","Y","Z">>
LowerChars == <<"a","b","c","d","e","f","g","h","i","j","k","l","m",
                "n","o","p","q","r","s","t","u","v","w","x","y","z">>
Digits == {"0","1","2","3","4","5","6","7","8","9"}

\* The lower-case letter of each upper-case letter, and the converse.
LowerOf == [c \in Range(UpperChars) |->
              LowerChars[CHOOSE i \in DOMAIN UpperChars : UpperChars[i] = c]]
UpperOf == [c \in Range(LowerChars) |->
              UpperChars[CHOOSE i \in DOMAIN LowerChars : LowerChars[i] = c]]

MapChar(c, map) == IF c \in DOMAIN map THEN map[c] ELSE c

\* s[a-1:b] with every character mapped (the string is halved so that the
\* evaluation nests no deeper than the logarithm of its length).
RECURSIVE MapRange(_, _, _, _)
MapRange(s, a, b, map) ==
    IF a > b THEN ""
    ELSE IF a = b THEN MapChar(SubSeq(s, a, a), map)
    ELSE LET mid == (a + b) \div 2
         IN  MapRange(s, a, mid, map) \o MapRange(s, mid + 1, b, map)

\* str.lower()
Lower(s) == MapRange(s, 1, Len(s), LowerOf)

\* str.upper()
Upper(s) == MapRange(s, 1, Len(s), UpperOf)

IsDigit(c) == c \in Digits

\* \s of the re module
IsSpace(c) == c \in {" ", "\t", "\n", "\r"}

\* [\w-] of the re module
IsIdChar(c) ==
    \/ c \in Range(UpperChars)
    \/ c \in Range(LowerChars)
    \/ c \in Digits
    \/ c \in {"_", "-"}

\* The index after the longest run of characters from i that satisfy Class.
RECURSIVE RunEnd(_, _, _)
RunEnd(s, i, class) ==
    IF i <= Len(s) /\ ( \/ class = "digit" /\ IsDigit(Char(s, i))
                        \/ class = "space" /\ IsSpace(Char(s, i))
                        \/ class = "id"    /\ IsIdChar(Char(s, i)) )
    THEN RunEnd(s, i + 1, class)
    ELSE i

\* str.strip()
RECURSIVE RStrip(_)
RStrip(s) ==
    IF Len(s) > 0 /\ IsSpace(Char(s, Len(s)))
    THEN RStrip(SubSeq(s, 1, Len(s) - 1))
    ELSE s

Strip(s) == LET a == RunEnd(s, 1, "space") IN RStrip(SubSeq(s, a, Len(s)))

\* The j-th smallest element of a set of integers.
Nth(S, j) == CHOOSE i \in S : Cardinality({k \in S : k < i}) = j - 1

\* str.split(sep) for a one-character sep: the pieces between separators,
\* empty pieces included.
Split(s, sep) ==
    LET at == {i \in 1..Len(s) : Char(s, i) = sep}
        n == Cardinality(at)
        \* the j-th separator; 0 and Len(s) + 1 stand for the two ends
        pos(j) == IF j = 0 THEN 0
                  ELSE IF j > n THEN Len(s) + 1
                  ELSE Nth(at, j)
    IN  [j \in 1..(n + 1) |-> SubSeq(s, pos(j - 1) + 1, pos(j) - 1)]

\* str.split(): the maximal runs of non-whitespace characters.
Words(s) ==
    LET starts == {i \in 1..Len(s) : /\ ~IsSpace(Char(s, i))
                                      /\ (i = 1 \/ IsSpace(Char(s, i - 1)))}
        ends(i) == CHOOSE e \in i..Len(s) :
                      /\ \A k \in i..e : ~IsSpace(Char(s, k))
                      /\ (e = Len(s) \/ IsSpace(Char(s, e + 1)))
    IN  [j \in 1..Cardinality(starts) |->
           SubSeq(s, Nth(starts, j), ends(Nth(starts, j)))]

\* sep.join(list)
RECURSIVE Join(_, _)
Join(sep, list) ==
    IF Len(list) = 0 THEN ""
    ELSE IF Len(list) = 1 THEN list[1]
    ELSE list[1] \o sep \o Join(sep, Tail(list))

\* The lists list(set(xs)) can be: every order of the distinct elements of
\* xs (the iteration order of a set of str is not fixed by the language).
RECURSIVE Orderings(_)
Orderings(S) ==
    IF S = {} THEN {<<>>}
    ELSE UNION {{<<x>> \o q : q \in Orderings(S \ {x})} : x \in S}

ListOfSet(xs) == Orderings(Range(xs))

(***************************************************************************)
(* extract_video_id                                                        *)
(***************************************************************************)
\* The literal part of each pattern, in the order of the list; each is
\* followed by the group ([\w-]+).
patterns ==
    << "youtube.com/watch?v=",
       "youtu.be/",
       "youtube.com/embed/",
       "youtube.com/v/" >>

\* re.search: the positions where literal + [\w-]+ matches.
MatchStarts(lit, s) ==
    {i \in 1..Len(s) : /\ StartsWithAt(s, i, lit)
                       /\ RunEnd(s, i + Len(lit), "id") > i + Len(lit)}

\* match.group(1) of the leftmost match
Group1(lit, s) ==
    LET i == SetMin(MatchStarts(lit, s))
        a == i + Len(lit)
    IN  SubSeq(s, a, RunEnd(s, a, "id") - 1)

RECURSIVE FirstMatch(_, _)
FirstMatch(k, s) ==
    IF k > Len(patterns) THEN NoneValue
    ELSE IF MatchStarts(patterns[k], s) # {} THEN Str(Group1(patterns[k], s))
    ELSE FirstMatch(k + 1, s)

extract_video_id(u) == FirstMatch(1, u)

(***************************************************************************)
(* VideoAnalyzer.__init__                                                  *)
(***************************************************************************)
trading_keywords ==
    [ indicators |->
        << "rsi", "macd", "moving average", "ema", "sma", "bollinger bands",
           "stochastic", "volume", "atr", "adx", "ichimoku", "fibonacci",
           "pivot points", "support resistance", "vwap", "momentum" >>,
      patterns |->
        << "breakout", "trend", "reversal", "divergence", "convergence",
           "cross", "crossover", "golden cross", "death cross", "squeeze",
           "flag", "pennant", "triangle", "head and shoulders", "double top",
           "double bottom", "cup and handle" >>,
      strategies |->
        << "scalping", "day trading", "swing trading", "position trading",
           "mean reversion", "trend following", "momentum", "arbitrage",
           "pairs trading", "grid trading", "martingale", "dca" >>,
      conditions |->
        << "entry", "exit", "stop loss", "take profit", "risk management",
           "position sizing", "trailing stop", "break even", "signal",
           "confirmation", "filter", "trigger" >>,
      timeframes |->
        << "1 minute", "5 minute", "15 minute", "30 minute", "1 hour",
           "4 hour", "daily", "weekly", "monthly", "multi timeframe",
           "higher timeframe", "lower timeframe" >> ]

(***************************************************************************)
(* extract_key_concepts                                                    *)
(***************************************************************************)
found_concepts_initial ==
    [ indicators      |-> <<>>,
      patterns        |-> <<>>,
      strategies      |-> <<>>,
      conditions      |-> <<>>,
      timeframes      |-> <<>>,
      specific_values |-> <<>> ]

\* The keywords of one category that occur in the text, in table order.
FoundKeywords(keywords, text_lower) ==
    SelectSeq(keywords, LAMBDA keyword : Contains(text_lower, keyword))

\* The four regular expressions.  "before": number \s* (word|word...), the
\* number is the group.  "after": (word|...) \s* (link|...)? \s* number.
\* number "int" is \d+, "decimal" is \d+\.?\d*.
number_patterns ==
    << [ shape |-> "before", number |-> "int",
         words |-> <<"period", "length", "bar", "candle">>,
         links |-> <<>>, type |-> "periods" ],
       [ shape |-> "before", number |-> "decimal",
         words |-> <<"%", "percent">>,
         links |-> <<>>, type |-> "percentages" ],
       [ shape |-> "before", number |-> "int",
         words |-> <<"pip", "point">>,
         links |-> <<>>, type |-> "pips" ],
       [ shape |-> "after", number |-> "decimal",
         words |-> <<"level", "zone", "area">>,
         links |-> <<"at", "around">>, type |-> "levels" ] >>

\* The index after the number that starts at the digit at i (greedy).
NumberEnd(s, i, number) ==
    LET a == RunEnd(s, i, "digit")
    IN  IF number = "decimal" /\ Char(s, a) = "."
        THEN RunEnd(s, a + 1, "digit")
        ELSE a

\* The alternatives of (w1|w2|...) that match at k, in order.
AltsAt(s, k, words) == SelectSeq(words, LAMBDA w : StartsWithAt(s, k, w))

\* The match of pattern p that starts exactly at i: [end, group], end
\* being the index after the match; NoneValue when there is none.
MatchBefore(p, s, i) ==
    IF ~IsDigit(Char(s, i)) THEN NoneValue
    ELSE LET e == NumberEnd(s, i, p.number)
             k == RunEnd(s, e, "space")
             alts == AltsAt(s, k, p.words)
         IN  IF Len(alts) = 0 THEN NoneValue
             ELSE [end |-> k + Len(alts[1]), group |-> SubSeq(s, i, e - 1)]

MatchAfter(p, s, i) ==
    LET alts == AltsAt(s, i, p.words)
    IN  IF Len(alts) = 0 THEN NoneValue
        ELSE LET k == RunEnd(s, i + Len(alts[1]), "space")
                 \* the optional link taken, then \s*, then a digit
                 linked == SelectSeq(AltsAt(s, k, p.links),
                              LAMBDA l : IsDigit(Char(s, RunEnd(s, k + Len(l), "space"))))
                 n == IF Len(linked) > 0
                      THEN RunEnd(s, k + Len(linked[1]), "space")
                      ELSE k
             IN  IF ~IsDigit(Char(s, n)) THEN NoneValue
                 ELSE [end |-> NumberEnd(s, n, p.number),
                       group |-> SubSeq(s, n, NumberEnd(s, n, p.number) - 1)]

MatchAt(p, s, i) ==
    IF p.shape = "before" THEN MatchBefore(p, s, i) ELSE MatchAfter(p, s, i)

\* re.findall(pattern, s): the groups of the non-overlapping matches,
\* scanning left to right.  matches[j] is the match that starts at j, for
\* every j where there is one; the scan takes the leftmost one at or after
\* i and goes on from its end.
RECURSIVE FindAllFrom(_, _)
FindAllFrom(matches, i) ==
    LET starts == {j \in DOMAIN matches : j >= i}
    IN  IF starts = {} THEN <<>>
        ELSE LET m == matches[SetMin(starts)]
             IN  <<m.group>> \o FindAllFrom(matches, m.end)

FindAll(p, s) ==
    LET starts == {j \in 1..Len(s) : MatchAt(p, s, j) # NoneValue}
    IN  FindAllFrom([j \in starts |-> MatchAt(p, s, j)], 1)

\* "Limit to 5 unique values"
MaxValues == 5

\* list(set(matches))[:5], every list it can be
LimitedValues(matches) == {Take(q, MaxValues) : q \in ListOfSet(matches)}

\* The specific_values lists the loop over number_patterns[k..] can append.
RECURSIVE SpecificValuesFrom(_, _)
SpecificValuesFrom(k, text_lower) ==
    IF k > Len(number_patterns) THEN {<<>>}
    ELSE LET matches == FindAll(number_patterns[k], text_lower)
             rest == SpecificValuesFrom(k + 1, text_lower)
         IN  IF Len(matches) = 0 THEN rest
             ELSE {<<[type |-> number_patterns[k].type, values |-> v]>> \o r :
                      v \in LimitedValues(matches), r \in rest}

\* The dicts extract_key_concepts(text) can return.
extract_key_concepts(text) ==
    LET text_lower == Lower(text)
        \* after the loop over trading_keywords.items()
        found == [category \in DOMAIN found_concepts_initial |->
                    IF category \in DOMAIN trading_keywords
                    THEN found_concepts_initial[category]
                           \o FoundKeywords(trading_keywords[category], text_lower)
                    ELSE found_concepts_initial[category]]
    IN  { [found EXCEPT !["specific_values"] = @ \o sv] :
          sv \in SpecificValuesFrom(1, text_lower) }

(***************************************************************************)
(* identify_strategy_components                                            *)
(***************************************************************************)
components_initial ==
    [ entry_conditions  |-> <<>>,
      exit_conditions   |-> <<>>,
      risk_management   |-> <<>>,
      indicators_used   |-> <<>>,
      timeframe         |-> NoneValue,
      market_conditions |-> <<>> ]

\* isinstance(components[key], list): every value but timeframe's None
IsListKey(key) == key # "timeframe"

\* The exit list without 'stop loss'.
trigger_words_NoStopLoss ==
    [ entry_conditions  |-> <<"enter", "buy", "long", "entry signal">>,
      exit_conditions   |-> <<"exit", "sell", "close", "take profit">>,
      risk_management   |-> <<"risk", "position size", "money management", "drawdown">>,
      market_conditions |-> <<"trend", "ranging", "volatile", "breakout">> ]

trigger_words ==
    [ entry_conditions  |-> <<"enter", "buy", "long", "entry signal">>,
      exit_conditions   |-> <<"exit", "sell", "close", "take profit", "stop loss">>,
      risk_management   |-> <<"risk", "position size", "money management", "drawdown">>,
      market_conditions |-> <<"trend", "ranging", "volatile", "breakout">> ]

\* What the loop over sentences[i..] appends to the list of one role;
\* sentences_lower[i] is sentence_lower of sentences[i].
RECURSIVE Appended(_, _, _, _)
Appended(sentences, sentences_lower, i, words) ==
    IF i > Len(sentences) THEN <<>>
    ELSE (IF ContainsAny(sentences_lower[i], words)
          THEN <<Strip(sentences[i])>> ELSE <<>>)
         \o Appended(sentences, sentences_lower, i + 1, words)

\* "Limit entries to most relevant"
MaxEntries == 3

\* components[key][-3:]
LimitEntries_Last(list) ==
    IF Len(list) > MaxEntries THEN SubSeq(list, Len(list) - MaxEntries + 1, Len(list))
    ELSE list

LimitEntries(list) == IF Len(list) > MaxEntries THEN Take(list, MaxEntries) ELSE list

\* A dict that only gets the roles for which a sentence was found.
identify_strategy_components_Sparse(text) ==
    LET sentences == Split(text, ".")
        sentences_lower == [i \in DOMAIN sentences |-> Lower(sentences[i])]
        lists == [key \in DOMAIN trigger_words |->
                    Appended(sentences, sentences_lower, 1, trigger_words[key])]
    IN  [key \in {k \in DOMAIN lists : Len(lists[k]) > 0} |-> LimitEntries(lists[key])]

identify_strategy_components(text) ==
    LET sentences == Split(text, ".")
        sentences_lower == [i \in DOMAIN sentences |-> Lower(sentences[i])]
        filled == [key \in DOMAIN components_initial |->
                     IF key \in DOMAIN trigger_words
                     THEN components_initial[key]
                            \o Appended(sentences, sentences_lower, 1, trigger_words[key])
                     ELSE components_initial[key]]
    IN  [key \in DOMAIN filled |->
           IF IsListKey(key) THEN LimitEntries(filled[key]) ELSE filled[key]]

(***************************************************************************)
(* generate_pine_script_spec and its helpers                               *)
(***************************************************************************)
_determine_script_type(c, comp) ==
    LET strategy_indicators ==
            Len(Get(comp, "entry_conditions", <<>>))
              + Len(Get(comp, "exit_conditions", <<>>))
    IN  IF strategy_indicators > 2 THEN "strategy"
        ELSE IF Len(Get(c, "indicators", <<>>)) > 0 THEN "indicator"
        ELSE "unknown"

stop_words == {"when", "then", "that", "this", "with"}

\* ' '.join(key_terms[:5]) of one condition; "" when no word is kept
KeyTerms(condition) ==
    SelectSeq(Words(condition),
              LAMBDA word : Len(word) > 4 /\ Lower(word) \notin stop_words)

RECURSIVE Summaries(_)
Summaries(conditions) ==
    IF Len(conditions) = 0 THEN <<>>
    ELSE (IF Len(KeyTerms(Head(conditions))) > 0
          THEN <<Join(" ", Take(KeyTerms(Head(conditions)), 5))>>
          ELSE <<>>)
         \o Summaries(Tail(conditions))

_summarize_conditions(conditions) ==
    IF Len(conditions) = 0 THEN <<>> ELSE Summaries(Take(conditions, 3))

\* The indicator term without its cap of 3.
_calculate_complexity_NoCap(c, comp) ==
    LET score == 1
                 + Len(Get(c, "indicators", <<>>))
                 + Min(Len(Get(c, "patterns", <<>>)), 2)
                 + (IF Len(Get(comp, "entry_conditions", <<>>)) > 0 THEN 1 ELSE 0)
                 + (IF Len(Get(comp, "exit_conditions", <<>>)) > 0 THEN 1 ELSE 0)
                 + (IF Len(Get(comp, "risk_management", <<>>)) > 0 THEN 1 ELSE 0)
                 + (IF Len(Get(c, "timeframes", <<>>)) > 1 THEN 1 ELSE 0)
    IN  Min(score, 10)

\* One point for each entry condition instead of one for having any.
_calculate_complexity_PerEntry(c, comp) ==
    LET score == 1
                 + Min(Len(Get(c, "indicators", <<>>)), 3)
                 + Min(Len(Get(c, "patterns", <<>>)), 2)
                 + Len(Get(comp, "entry_conditions", <<>>))
                 + (IF Len(Get(comp, "exit_conditions", <<>>)) > 0 THEN 1 ELSE 0)
                 + (IF Len(Get(comp, "risk_management", <<>>)) > 0 THEN 1 ELSE 0)
                 + (IF Len(Get(c, "timeframes", <<>>)) > 1 THEN 1 ELSE 0)
    IN  Min(score, 10)

_calculate_complexity(c, comp) ==
    LET score == 1
                 + Min(Len(Get(c, "indicators", <<>>)), 3)
                 + Min(Len(Get(c, "patterns", <<>>)), 2)
                 + (IF Len(Get(comp, "entry_conditions", <<>>)) > 0 THEN 1 ELSE 0)
                 + (IF Len(Get(comp, "exit_conditions", <<>>)) > 0 THEN 1 ELSE 0)
                 + (IF Len(Get(comp, "risk_management", <<>>)) > 0 THEN 1 ELSE 0)
                 + (IF Len(Get(c, "timeframes", <<>>)) > 1 THEN 1 ELSE 0)
    IN  Min(score, 10)

_assess_feasibility(c, comp) ==
    [ overall     |-> IF _calculate_complexity(c, comp) <= 7 THEN "full" ELSE "partial",
      notes       |-> <<>>,
      limitations |-> <<>> ]

\* The specs generate_pine_script_spec can return (list(set(...)) leaves the
\* order of main_indicators and trading_patterns open).
generate_pine_script_spec(c, comp, meta) ==
    { [ video_source |->
          [ title  |-> Get(meta, "title", "Unknown"),
            author |-> Get(meta, "author", "Unknown"),
            url    |-> Get(meta, "url", "") ],
        detected_type    |-> _determine_script_type(c, comp),
        main_indicators  |-> Take(mi, 5),
        trading_patterns |-> Take(tp, 3),
        strategy_type    |-> IF Len(Get(c, "strategies", <<>>)) > 0
                             THEN Get(c, "strategies", <<"custom">>)[1]
                             ELSE "custom",
        timeframes       |-> Get(c, "timeframes", <<"not specified">>),
        implementation_requirements |->
          [ entry_logic   |-> _summarize_conditions(Get(comp, "entry_conditions", <<>>)),
            exit_logic    |-> _summarize_conditions(Get(comp, "exit_conditions", <<>>)),
            risk_rules    |-> _summarize_conditions(Get(comp, "risk_management", <<>>)),
            market_filter |-> Take(Get(comp, "market_conditions", <<>>), 2) ],
        specific_parameters |-> Get(c, "specific_values", <<>>),
        complexity_score    |-> _calculate_complexity(c, comp),
        feasibility         |-> _assess_feasibility(c, comp) ] :
      mi \in ListOfSet(Get(c, "indicators", <<>>)),
      tp \in ListOfSet(Get(c, "patterns", <<>>)) }

(***************************************************************************)
(* create_user_summary: the lines of the text that depend on the spec      *)
(***************************************************************************)
create_user_summary(sp) ==
    << "VIDEO ANALYSIS COMPLETE",
       "**Source**: " \o sp.video_source.title,
       "**Author**: " \o sp.video_source.author,
       "**Detected Type**: " \o Upper(sp.detected_type),
       "**Complexity**: " \o ToString(sp.complexity_score) \o "/10",
       "**Strategy Style**: " \o sp.strategy_type,
       "Indicators: " \o (IF Len(sp.main_indicators) > 0
                          THEN Join(", ", sp.main_indicators) ELSE "None specific"),
       "Patterns: " \o (IF Len(sp.trading_patterns) > 0
                        THEN Join(", ", sp.trading_patterns) ELSE "None specific"),
       "Timeframes: " \o Join(", ", sp.timeframes),
       "Entry: " \o ToString(Len(sp.implementation_requirements.entry_logic))
                 \o " conditions found",
       "Exit: " \o ToString(Len(sp.implementation_requirements.exit_logic))
                \o " conditions found",
       "Risk: " \o ToString(Len(sp.implementation_requirements.risk_rules))
                \o " rules found",
       "**Feasibility**: " \o Upper(sp.feasibility.overall) >>

(***************************************************************************)
(* get_video_metadata                                                      *)
(***************************************************************************)
\* dict[key] = value
Put(d, k, v) == [x \in DOMAIN d \cup {k} |-> IF x = k THEN v ELSE d[x]]

RECURSIVE Repeat(_, _)
Repeat(s, n) == IF n = 0 THEN "" ELSE s \o Repeat(s, n - 1)

\* What one run of yt-dlp --dump-json can come to: subprocess.run raises
\* (the 30 s timeout, a missing executable), the tool exits non-zero, or it
\* exits 0 and json.loads either raises or returns the data.
MetadataRuns ==
    { [outcome |-> "raises", message |-> "Command timed out after 30 seconds"],
      [outcome |-> "exit", returncode |-> 1, stderr |-> "ERROR: Video unavailable",
       json |-> "none", data |-> NoneValue],
      [outcome |-> "exit", returncode |-> 0, stderr |-> "",
       json |-> "invalid", data |-> NoneValue],
      [outcome |-> "exit", returncode |-> 0, stderr |-> "",
       json |-> "ok",
       data |-> [ title |-> "Simple TradingView Strategy", uploader |-> "Trader",
                  duration |-> 600, description |-> Repeat("0123456789", 51),
                  upload_date |-> "20240101", view_count |-> 1000 ]],
      [outcome |-> "exit", returncode |-> 0, stderr |-> "WARNING: no title",
       json |-> "ok",
       data |-> [ duration |-> 60 ]] }

\* The except clause: the exception becomes an error record.
MetadataError(message) == [error |-> "Failed to get metadata: " \o message]

\* The body of the try block: the dict it returns, or [raised |-> message]
\* when subprocess.run or json.loads raises.
MetadataTry(run) ==
    IF run.outcome = "raises" THEN [raised |-> run.message]
    ELSE IF run.returncode = 0
    THEN IF run.json # "ok"
         THEN [raised |-> "Expecting value: line 1 column 1 (char 0)"]
         ELSE [ title        |-> Get(run.data, "title", "Unknown"),
                author       |-> Get(run.data, "uploader", "Unknown"),
                length       |-> Get(run.data, "duration", 0),
                description  |-> Take(Get(run.data, "description", ""), 500),
                publish_date |-> Get(run.data, "upload_date", "Unknown"),
                views        |-> Get(run.data, "view_count", 0) ]
    ELSE [error |-> "Failed to get metadata: " \o run.stderr]

\* get_video_metadata without its except clause: the exception leaves the
\* function.
get_video_metadata_Uncaught(run) == MetadataTry(run)

get_video_metadata(run) ==
    LET r == MetadataTry(run)
    IN  IF "raised" \in DOMAIN r THEN MetadataError(r.raised) ELSE r

(***************************************************************************)
(* Inputs                                                                  *)
(***************************************************************************)
Urls ==
    { "https://www.youtube.com/watch?v=rf_EQvubKlk&t=10s",
      "https://youtu.be/abc-123",
      "https://www.youtube.com/embed/x_Y",
      "youtube.com/v/V1",
      "https://youtu.be/x?u=youtube.com/watch?v=first",
      "https://www.youtube.com/watch?v=",
      "https://vimeo.com/12345",
      "" }

ExampleTranscript ==
    "RSI crossed above 70. Enter long when RSI crosses 30. Stop loss at 2%."

\* What model.transcribe(...)["text"] is in the pipeline runs.
WhisperTexts ==
    { "", " ", ExampleTranscript, " Buy now. Then sell.",
      "Nothing about markets here", "MACD on the daily and weekly chart." }

\* Transcripts that stress the caps: five sentences with an entry word and
\* six distinct percentages (one of them twice); four indicators, three
\* patterns and two timeframes; and no trading vocabulary at all.
StressTranscripts ==
    { ExampleTranscript,
      "Buy 1%. Buy 2%. Buy 3%. Buy 4% or 5.5 percent. Buy 6% and 1% again",
      "RSI, MACD, EMA and VWAP with crossover breakout. Buy. Sell. Daily weekly.",
      "Nothing about markets here" }

\* The pieces the other transcripts of the text pass are made of.
Fragments ==
    << "Buy when RSI crosses MACD. ",
       "Sell and close the rest. ",
       "Risk 1% or 2 percent. ",
       "Stop loss at daily and weekly trend level 70. ",
       "Enter small at 14 period. Belong. ",
       "Buy. Buy more. " >>

MaxFragments == 3

RECURSIVE Concatenations(_)
Concatenations(n) ==
    IF n = 0 THEN {""}
    ELSE {t \o Fragments[i] : t \in Concatenations(n - 1), i \in DOMAIN Fragments}

Transcripts ==
    StressTranscripts \cup UNION {Concatenations(n) : n \in 1..MaxFragments}

(***************************************************************************)
(* analyze_video, step by step                                             *)
(***************************************************************************)
Init ==
    /\ pc = "analyze_video"
    /\ url \in Urls
    /\ video_id = NoneValue
    /\ metadata = NoneValue
    /\ temp_dir = FALSE
    /\ audio_file = FALSE
    /\ transcript = NoneValue
    /\ concepts = NoneValue
    /\ components = NoneValue
    /\ spec = NoneValue
    /\ summary = NoneValue
    /\ result = NoneValue
    /\ calls = <<>>

\* analyze_video without the early return.
ParseUrl_NoReturn ==
    /\ pc = "analyze_video"
    /\ video_id' = extract_video_id(url)
    /\ pc' = "get_video_metadata"
    /\ UNCHANGED <<url, metadata, temp_dir, audio_file, transcript, concepts,
                   components, spec, summary, result, calls>>

\* video_id = self.extract_video_id(url); if not video_id: return {...}
ParseUrl ==
    /\ pc = "analyze_video"
    /\ video_id' = extract_video_id(url)
    /\ IF video_id' = NoneValue
       THEN /\ result' = [error |-> "Invalid YouTube URL"]
            /\ pc' = "done"
       ELSE /\ result' = result
            /\ pc' = "get_video_metadata"
    /\ UNCHANGED <<url, metadata, temp_dir, audio_file, transcript, concepts,
                   components, spec, summary, calls>>

\* metadata = self.get_video_metadata(url); metadata['url'] = url
GetVideoMetadata ==
    /\ pc = "get_video_metadata"
    /\ \E run \in MetadataRuns :
         LET m == get_video_metadata(run)
         IN  IF "raised" \in DOMAIN m
             THEN \* nothing in analyze_video catches it
                  /\ pc' = "raised"
                  /\ metadata' = metadata
             ELSE /\ pc' = "download_and_transcribe"
                  /\ metadata' = Put(m, "url", url)
    /\ calls' = Append(calls, "get_video_metadata")
    /\ UNCHANGED <<url, video_id, temp_dir, audio_file, transcript, concepts,
                   components, spec, summary, result>>

\* The collaborators called so far, in order: get_video_metadata,
\* download_and_transcribe and, inside it, the download (yt-dlp -x),
\* whisper.load_model and model.transcribe.
Called(name) == \E i \in DOMAIN calls : calls[i] = name

\* Leaving the with block deletes the directory and what is in it.
Cleanup ==
    /\ temp_dir' = FALSE
    /\ audio_file' = FALSE

\* return value, from inside the with block
DtReturn(value) ==
    /\ Cleanup
    /\ transcript' = value
    /\ pc' = "check_transcript"

\* The directory made with mkdtemp and removed on the normal path only: an
\* exception leaves it, and what the download wrote, behind.
DtExcept_Leak(partial_file) ==
    /\ temp_dir' = temp_dir
    /\ audio_file' = partial_file
    /\ transcript' = NoneValue
    /\ pc' = "check_transcript"

\* An exception raised inside the with block: it leaves the block, which
\* cleans up, and the except clause returns None.
DtExcept(partial_file) ==
    /\ Cleanup
    /\ transcript' = NoneValue
    /\ pc' = "check_transcript"

\* with tempfile.TemporaryDirectory() as temp_dir
EnterTempDir ==
    /\ pc = "download_and_transcribe"
    /\ calls' = Append(calls, "download_and_transcribe")
    /\ \/ /\ temp_dir' = TRUE
          /\ audio_file' = audio_file
          /\ transcript' = transcript
          /\ pc' = "download"
       \/ \* the directory cannot be made: OSError, nothing to clean up
          /\ UNCHANGED <<temp_dir, audio_file>>
          /\ transcript' = NoneValue
          /\ pc' = "check_transcript"
    /\ UNCHANGED <<url, video_id, metadata, concepts, components, spec,
                   summary, result>>

\* subprocess.run(['yt-dlp', '-x', ...], timeout=120) and the returncode test
Download ==
    /\ pc = "download"
    /\ \/ \* exit 0: audio.mp3 is there
          /\ temp_dir' = temp_dir
          /\ audio_file' = TRUE
          /\ transcript' = transcript
          /\ pc' = "load_model"
       \/ \* exit non-zero, with or without a partial file: return None
          DtReturn(NoneValue)
       \/ \* TimeoutExpired or another exception
          \E partial_file \in BOOLEAN : DtExcept(partial_file)
    /\ calls' = Append(calls, "yt-dlp -x")
    /\ UNCHANGED <<url, video_id, metadata, concepts, components, spec,
                   summary, result>>

\* model = whisper.load_model("base")
LoadModel ==
    /\ pc = "load_model"
    /\ \/ /\ pc' = "transcribe"
          /\ UNCHANGED <<temp_dir, audio_file, transcript>>
       \/ DtExcept(audio_file)
    /\ calls' = Append(calls, "whisper.load_model")
    /\ UNCHANGED <<url, video_id, metadata, concepts, components, spec,
                   summary, result>>

\* result = model.transcribe(audio_path); return result["text"]
Transcribe ==
    /\ pc = "transcribe"
    /\ \/ \E text \in WhisperTexts : DtReturn(Str(text))
       \/ DtExcept(audio_file)
    /\ calls' = Append(calls, "model.transcribe")
    /\ UNCHANGED <<url, video_id, metadata, concepts, components, spec,
                   summary, result>>

\* "transcript is None" in place of "not transcript"
Falsy_NoneOnly(t) == t = NoneValue

\* not transcript
Falsy(t) == t = NoneValue \/ t.str = ""

\* if not transcript: return {'error': ..., 'metadata': metadata}
CheckTranscript ==
    /\ pc = "check_transcript"
    /\ IF Falsy(transcript)
       THEN /\ result' = [error |-> "Could not transcribe video", metadata |-> metadata]
            /\ pc' = "done"
       ELSE /\ result' = result
            /\ pc' = "extract_key_concepts"
    /\ UNCHANGED <<url, video_id, metadata, temp_dir, audio_file, transcript,
                   concepts, components, spec, summary, calls>>

\* concepts = self.extract_key_concepts(transcript)
ExtractKeyConcepts ==
    /\ pc = "extract_key_concepts"
    /\ concepts' \in extract_key_concepts(transcript.str)
    /\ pc' = "identify_strategy_components"
    /\ UNCHANGED <<url, video_id, metadata, temp_dir, audio_file, transcript,
                   components, spec, summary, result, calls>>

\* components = self.identify_strategy_components(transcript)
IdentifyStrategyComponents ==
    /\ pc = "identify_strategy_components"
    /\ components' = identify_strategy_components(transcript.str)
    /\ pc' = "generate_pine_script_spec"
    /\ UNCHANGED <<url, video_id, metadata, temp_dir, audio_file, transcript,
                   concepts, spec, summary, result, calls>>

\* spec = self.generate_pine_script_spec(concepts, components, metadata)
GeneratePineScriptSpec ==
    /\ pc = "generate_pine_script_spec"
    /\ spec' \in generate_pine_script_spec(concepts, components, metadata)
    /\ pc' = "create_user_summary"
    /\ UNCHANGED <<url, video_id, metadata, temp_dir, audio_file, transcript,
                   concepts, components, summary, result, calls>>

\* hashlib.md5(video_id.encode()).hexdigest()[:8]: a function of the
\* identifier alone, kept symbolic.
AnalysisId(id) == [md5_hex8_of |-> id]

\* summary = self.create_user_summary(spec); return {'success': True, ...}
CreateUserSummary ==
    /\ pc = "create_user_summary"
    /\ summary' = create_user_summary(spec)
    /\ result' = [ success           |-> TRUE,
                   summary           |-> summary',
                   detailed_spec     |-> spec,
                   raw_concepts      |-> concepts,
                   raw_components    |-> components,
                   transcript_length |-> Len(transcript.str),
                   analysis_id       |-> AnalysisId(video_id.str) ]
    /\ pc' = "done"
    /\ UNCHANGED <<url, video_id, metadata, temp_dir, audio_file, transcript,
                   concepts, components, spec, calls>>

Next ==
    \/ ParseUrl
    \/ GetVideoMetadata
    \/ EnterTempDir
    \/ Download
    \/ LoadModel
    \/ Transcribe
    \/ CheckTranscript
    \/ ExtractKeyConcepts
    \/ IdentifyStrategyComponents
    \/ GeneratePineScriptSpec
    \/ CreateUserSummary

Spec == Init /\ [][Next]_vars

(***************************************************************************)
(* The text pass alone: analyze_video from the point where a non-empty     *)
(* transcript has been obtained, over every transcript of the bound.       *)
(***************************************************************************)
TextUrl == "https://youtu.be/abc-123"

InitText ==
    /\ pc = "extract_key_concepts"
    /\ url = TextUrl
    /\ video_id = extract_video_id(TextUrl)
    /\ metadata = Put(MetadataError("Command timed out after 30 seconds"), "url", TextUrl)
    /\ temp_dir = FALSE
    /\ audio_file = FALSE
    /\ transcript \in {Str(t) : t \in Transcripts}
    /\ concepts = NoneValue
    /\ components = NoneValue
    /\ spec = NoneValue
    /\ summary = NoneValue
    /\ result = NoneValue
    /\ calls = <<"get_video_metadata", "download_and_transcribe", "yt-dlp -x",
                 "whisper.load_model", "model.transcribe">>

NextText ==
    \/ ExtractKeyConcepts
    \/ IdentifyStrategyComponents
    \/ GeneratePineScriptSpec
    \/ CreateUserSummary

TextSpec == InitText /\ [][NextText]_vars

(***************************************************************************)
(* Properties                                                              *)
(***************************************************************************)
\* The URL matches none of the four video-identifier patterns.
NoPatternMatches(u) == \A k \in DOMAIN patterns : MatchStarts(patterns[k], u) = {}

InvalidInput == [error |-> "Invalid YouTube URL"]

\* download_and_transcribe is being executed.
InTranscription == pc \in {"download", "load_model", "transcribe"}

\* analyze_video has its transcript (download_and_transcribe has returned).
TranscriptAcquired == Called("download_and_transcribe") /\ ~InTranscription

\* The transcript is None or the empty string.
TranscriptEmpty == transcript = NoneValue \/ transcript = Str("")

AnalysisNotRun == concepts = NoneValue /\ components = NoneValue /\ spec = NoneValue

\* C1: when the URL matches none of the four patterns, analyze_video returns
\* {'error': 'Invalid YouTube URL'} at once, and in no state of the run
\* has get_video_metadata, download_and_transcribe or any step inside it
\* been called.
C1_InvalidUrlReturnsWithoutRetrieval ==
    NoPatternMatches(url) =>
        /\ calls = <<>>
        /\ pc \in {"analyze_video", "done"}
        /\ pc = "done" => result = InvalidInput
        /\ metadata = NoneValue
        /\ transcript = NoneValue

C1_Witness ==
    /\ pc = "done"
    /\ url = "https://vimeo.com/12345"
    /\ result = InvalidInput

\* C2: once transcript acquisition has failed or returned an empty
\* transcript and analyze_video has tested it, the run is over with a result
\* that has an error field, no success flag and the metadata record of
\* step 2 (its error field included when the fetch failed); concepts,
\* components and spec were never computed.
C2_EmptyTranscriptEndsWithFailure ==
    (TranscriptAcquired /\ TranscriptEmpty /\ pc # "check_transcript") =>
        /\ pc = "done"
        /\ "error" \in DOMAIN result
        /\ "success" \notin DOMAIN result
        /\ result.metadata = metadata
        /\ metadata # NoneValue
        /\ metadata.url = url
        /\ AnalysisNotRun

\* The empty string came back from Whisper, after a failed metadata fetch.
C2_Witness ==
    /\ pc = "done"
    /\ transcript = Str("")
    /\ "error" \in DOMAIN result
    /\ "error" \in DOMAIN result.metadata

\* C3: get_video_metadata never raises; with a parseable identifier the run
\* always goes on from the metadata fetch to transcript acquisition,
\* whether the record is an error record or not; and with a non-empty
\* transcript it ends in a success result.
C3_MetadataFailureNotFatal ==
    /\ pc # "raised"
    /\ Called("get_video_metadata") =>
          /\ metadata # NoneValue
          /\ ("error" \in DOMAIN metadata) # ("title" \in DOMAIN metadata)
          /\ pc = "download_and_transcribe" \/ Called("download_and_transcribe")
    /\ (pc = "done" /\ TranscriptAcquired /\ ~TranscriptEmpty) =>
          /\ "success" \in DOMAIN result
          /\ result.success = TRUE
          /\ "error" \notin DOMAIN result

\* A success result after a failed metadata fetch.
C3_Witness ==
    /\ pc = "done"
    /\ "error" \in DOMAIN metadata
    /\ "success" \in DOMAIN result

\* C4: the temporary directory and the audio file in it exist only while
\* download_and_transcribe runs; once it has returned, on whatever path,
\* both are gone and the value returned is the text or None.
C4_TempDirScopedToCall ==
    /\ temp_dir => InTranscription
    /\ audio_file => temp_dir
    /\ InTranscription => temp_dir
    /\ TranscriptAcquired =>
          /\ ~temp_dir
          /\ ~audio_file
          /\ transcript = NoneValue \/ DOMAIN transcript = {"str"}
    /\ pc # "raised"

\* whisper.load_model raised with the audio file on disk: the call has
\* returned None and nothing is left.
C4_Witness ==
    /\ pc = "check_transcript"
    /\ calls[Len(calls)] = "whisper.load_model"
    /\ transcript = NoneValue
    /\ ~temp_dir
    /\ ~audio_file

ConceptKeys ==
    {"indicators", "patterns", "strategies", "conditions", "timeframes",
     "specific_values"}

RoleKeys ==
    {"entry_conditions", "exit_conditions", "risk_management", "market_conditions"}

\* C5 as stated: the key sets are exactly the category keys plus
\* specific_values, and exactly the four role keys.
C5_Original ==
    /\ concepts # NoneValue => DOMAIN concepts = ConceptKeys
    /\ components # NoneValue => DOMAIN components = RoleKeys

\* C5: the keys of ConceptFindings are exactly the five categories and
\* specific_values; the keys of StrategyComponents are exactly the four
\* roles and the two placeholders indicators_used (always the empty list)
\* and timeframe (always None); every key is there when its value is empty.
C5_KeySetsFixed ==
    /\ concepts # NoneValue => DOMAIN concepts = ConceptKeys
    /\ components # NoneValue =>
          /\ DOMAIN components = RoleKeys \cup {"indicators_used", "timeframe"}
          /\ components.indicators_used = <<>>
          /\ components.timeframe = NoneValue

\* Nothing was found at all, and every key is there.
C5_Witness ==
    /\ pc = "done"
    /\ \A k \in ConceptKeys : concepts[k] = <<>>
    /\ \A k \in RoleKeys : components[k] = <<>>

IsDistinct(list) == \A i, j \in DOMAIN list : i # j => list[i] # list[j]

\* The trimmed segments of the transcript, cut at each period, whose
\* lower-case form contains a trigger word of the role, in transcript order.
MatchingSegments(text, role) ==
    LET segments == Split(Lower(text), ".")
        hit(i) == \E w \in Range(trigger_words[role]) : Contains(segments[i], w)
        hits == {i \in DOMAIN segments : hit(i)}
    IN  [j \in 1..Cardinality(hits) |-> Strip(Split(text, ".")[Nth(hits, j)])]

\* C6: each specific_values entry holds at most 5 values, all distinct;
\* each role list holds at most 3 entries, the first 3 matching segments in
\* transcript order.  (The role lists are compared with the transcript in
\* the state identify_strategy_components leaves; they do not change after.)
C6_ListsCapped ==
    /\ concepts # NoneValue =>
          \A i \in DOMAIN concepts.specific_values :
              /\ Len(concepts.specific_values[i].values) <= 5
              /\ IsDistinct(concepts.specific_values[i].values)
    /\ components # NoneValue =>
          \A role \in RoleKeys : Len(components[role]) <= 3
    /\ pc = "generate_pine_script_spec" =>
          \A role \in RoleKeys :
              components[role] = Take(MatchingSegments(transcript.str, role), 3)
    /\ pc = "done" /\ "success" \in DOMAIN result =>
          /\ result.raw_components = components
          /\ result.raw_concepts = concepts

\* Six distinct percentages cut to 5 and five entry sentences cut to 3.
C6_Witness ==
    /\ pc = "done"
    /\ Len(MatchingSegments(transcript.str, "entry_conditions")) = 5
    /\ Len(components.entry_conditions) = 3
    /\ \E i \in DOMAIN concepts.specific_values :
          Len(concepts.specific_values[i].values) = 5

\* 1 + min(#indicators,3) + min(#patterns,2) + 1 if any entry + 1 if any
\* exit + 1 if any risk rule + 1 if more than one timeframe, clamped to 10
ClaimedScore ==
    LET ni == Len(concepts.indicators)
        np == Len(concepts.patterns)
        raw == 1 + (IF ni < 3 THEN ni ELSE 3) + (IF np < 2 THEN np ELSE 2)
                 + (IF components.entry_conditions # <<>> THEN 1 ELSE 0)
                 + (IF components.exit_conditions # <<>> THEN 1 ELSE 0)
                 + (IF components.risk_management # <<>> THEN 1 ELSE 0)
                 + (IF Len(concepts.timeframes) > 1 THEN 1 ELSE 0)
    IN  IF raw > 10 THEN 10 ELSE raw

\* C7: complexity_score is an integer in [1,10] equal to the claimed sum,
\* and feasibility.overall is "full" exactly when it is at most 7,
\* otherwise "partial".
C7_ComplexityAndFeasibility ==
    spec # NoneValue =>
        /\ spec.complexity_score \in 1..10
        /\ spec.complexity_score = ClaimedScore
        /\ spec.feasibility.overall \in {"full", "partial"}
        /\ spec.feasibility.overall = "full" <=> spec.complexity_score <= 7

\* More indicators and patterns than the caps count, and a "partial" result.
C7_Witness ==
    /\ spec # NoneValue
    /\ Len(concepts.indicators) > 3
    /\ Len(concepts.patterns) > 2
    /\ spec.complexity_score = 9
    /\ spec.feasibility.overall = "partial"

\* C8: the timeframes field of the detailed spec is the list of matched
\* timeframe keywords when there is one, and ["not specified"] when there
\* is none.
C8_TimeframesOrNotSpecified ==
    spec # NoneValue =>
        /\ concepts.timeframes # <<>> => spec.timeframes = concepts.timeframes
        /\ concepts.timeframes = <<>> => spec.timeframes = <<"not specified">>

\* No phrase of the Keyword Table occurs anywhere in the text.
NoKeywordPhrase(text) ==
    LET low == Lower(text)
    IN  \A category \in DOMAIN trading_keywords :
            \A keyword \in Range(trading_keywords[category]) :
                ~Contains(low, keyword)

\* C9 as stated: without any Keyword Table phrase the score is 1 and the
\* feasibility "full".
C9_Original ==
    (pc = "done" /\ "success" \in DOMAIN result /\ NoKeywordPhrase(transcript.str)) =>
        /\ result.detailed_spec.complexity_score = 1
        /\ result.detailed_spec.feasibility.overall = "full"

\* The number of the roles entry, exit and risk of which a trigger word
\* occurs in the text.
RolesTriggered(text) ==
    LET low == Lower(text)
    IN  Cardinality({role \in {"entry_conditions", "exit_conditions", "risk_management"} :
                        \E w \in Range(trigger_words[role]) : Contains(low, w)})

\* C9: without any Keyword Table phrase, feasibility.overall is "full" and
\* complexity_score is 1 plus the number of the roles entry, exit and risk
\* of which a trigger word occurs: 1 when none occurs, 4 at most.
C9_NoKeywordsScore ==
    (pc = "done" /\ "success" \in DOMAIN result /\ NoKeywordPhrase(transcript.str)) =>
        /\ result.detailed_spec.complexity_score = 1 + RolesTriggered(transcript.str)
        /\ result.detailed_spec.complexity_score <= 4
        /\ result.detailed_spec.feasibility.overall = "full"

\* No keyword, and entry, exit and risk words all there.
C9_Witness ==
    /\ pc = "done"
    /\ "success" \in DOMAIN result
    /\ result.detailed_spec.complexity_score = 4
    /\ NoKeywordPhrase(transcript.str)

\* C10 as stated: for the example transcript the second sentence is the
\* entry condition, risk_management and exit_conditions are empty, and the
\* detected type is "indicator".
C10_Original ==
    transcript = Str(ExampleTranscript) =>
        /\ components # NoneValue =>
              /\ components.entry_conditions = <<"Enter long when RSI crosses 30">>
              /\ components.risk_management = <<>>
              /\ components.exit_conditions = <<>>
        /\ spec # NoneValue => spec.detected_type = "indicator"

\* C10: for the example transcript the second sentence is the entry
\* condition, risk_management is empty, exit_conditions holds the third
\* sentence ('stop loss' is an exit trigger word), and the detected type is
\* "indicator".
C10_ExampleTranscript ==
    transcript = Str(ExampleTranscript) =>
        /\ components # NoneValue =>
              /\ components.entry_conditions = <<"Enter long when RSI crosses 30">>
              /\ components.risk_management = <<>>
              /\ components.exit_conditions = <<"Stop loss at 2%">>
        /\ spec # NoneValue => spec.detected_type = "indicator"

C10_Witness ==
    /\ transcript = Str(ExampleTranscript)
    /\ pc = "done"
    /\ result.detailed_spec.detected_type = "indicator"

====
